---- MODULE Spec2Model ----
(***************************************************************************)
(* Model of the single-axis trapezoidal trajectory planner                 *)
(* (trajectory-planner/src/lib.rs) and of the demo that constructs one     *)
(* segment and drives its setters (blog-1-trapezoidal-1d/src/lib.rs).      *)
(*                                                                         *)
(* Numbers.  The program computes in f32.  A value is modelled as an IEEE  *)
(* sign-magnitude number whose magnitude is an exact rational:             *)
(*     [s |-> 1 or -1, n |-> numerator, d |-> denominator]                 *)
(* d > 0 : the finite value s*n/d in lowest terms (n = 0 is a signed zero) *)
(* d = 0 : n = 1 is an infinity of sign s, n = 0 is NaN.                   *)
(* Signed zeros, infinities and NaN follow IEEE 754, because the program   *)
(* tests is_sign_positive, is_finite and signum.  Rounding of + - * / is   *)
(* not modelled (results are exact); sqrt is exact on perfect squares and  *)
(* rounded down to a multiple of 1/SqrtScale of the denominator otherwise. *)
(***************************************************************************)
EXTENDS Integers, FiniteSets, Sequences, TLC

----------------------------------------------------------------------------
(* Bounds of the model                                                     *)

\* largest distance of a move
MaxDist == 10
\* largest speed a caller passes as start/end velocity
MaxSpeed == 3
\* precision of an inexact square root: 1/(SqrtScale * denominator)
SqrtScale == 16

----------------------------------------------------------------------------
(* f32 arithmetic                                                          *)

RECURSIVE GCD(_, _)
GCD(a, b) == IF b = 0 THEN a ELSE GCD(b, a % b)

Abs(i) == IF i < 0 THEN -i ELSE i

NaN == [s |-> 1, n |-> 0, d |-> 0]
Inf(sg) == [s |-> sg, n |-> 1, d |-> 0]
Zero(sg) == [s |-> sg, n |-> 0, d |-> 1]

\* the finite value sg * num / den, num >= 0, den > 0
Mk(sg, num, den) ==
    IF num = 0 THEN Zero(sg)
    ELSE LET g == GCD(num, den) IN [s |-> sg, n |-> num \div g, d |-> den \div g]

\* the literal p/q, q > 0 (a zero literal is +0.0)
R(p, q) == Mk(IF p < 0 THEN -1 ELSE 1, Abs(p), q)

IsNaN(x) == x.d = 0 /\ x.n = 0
IsInf(x) == x.d = 0 /\ x.n = 1
IsZero(x) == x.d > 0 /\ x.n = 0
\* f32::is_finite
IsFinite(x) == x.d > 0
\* f32::is_sign_positive (only read when the value is finite)
IsSignPositive(x) == x.s = 1

FNeg(x) == IF IsNaN(x) THEN NaN ELSE [x EXCEPT !.s = -x.s]

FAdd(x, y) ==
    IF IsNaN(x) \/ IsNaN(y) THEN NaN
    ELSE IF IsInf(x) /\ IsInf(y) THEN (IF x.s = y.s THEN x ELSE NaN)
    ELSE IF IsInf(x) THEN x
    ELSE IF IsInf(y) THEN y
    ELSE LET num == x.s * x.n * y.d + y.s * y.n * x.d
         IN  IF num = 0
             THEN \* x + (-x) = +0, (-0) + (-0) = -0
                  Zero(IF x.n = 0 /\ y.n = 0 /\ x.s = -1 /\ y.s = -1 THEN -1 ELSE 1)
             ELSE Mk(IF num < 0 THEN -1 ELSE 1, Abs(num), x.d * y.d)

FSub(x, y) == FAdd(x, FNeg(y))

FMul(x, y) ==
    IF IsNaN(x) \/ IsNaN(y) THEN NaN
    ELSE IF (IsInf(x) /\ IsZero(y)) \/ (IsZero(x) /\ IsInf(y)) THEN NaN
    ELSE IF IsInf(x) \/ IsInf(y) THEN Inf(x.s * y.s)
    ELSE Mk(x.s * y.s, x.n * y.n, x.d * y.d)

FDiv(x, y) ==
    IF IsNaN(x) \/ IsNaN(y) THEN NaN
    ELSE IF (IsInf(x) /\ IsInf(y)) \/ (IsZero(x) /\ IsZero(y)) THEN NaN
    ELSE IF IsInf(x) \/ IsZero(y) THEN Inf(x.s * y.s)
    ELSE IF IsInf(y) THEN Zero(x.s * y.s)
    ELSE Mk(x.s * y.s, x.n * y.d, x.d * y.n)

\* f32::abs
FAbs(x) == IF IsNaN(x) THEN NaN ELSE [x EXCEPT !.s = 1]

\* f32::signum: 1.0 for +0.0 and up, -1.0 for -0.0 and down, NaN for NaN
FSignum(x) == IF IsNaN(x) THEN NaN ELSE Mk(x.s, 1, 1)

\* f32::powi(2)
FSquare(x) == FMul(x, x)

\* x < y on f32: false when either is NaN, -0.0 = +0.0
FLt(x, y) ==
    IF IsNaN(x) \/ IsNaN(y) THEN FALSE
    ELSE IF IsInf(x) THEN x.s = -1 /\ ~(IsInf(y) /\ y.s = -1)
    ELSE IF IsInf(y) THEN y.s = 1
    ELSE x.s * x.n * y.d < y.s * y.n * x.d

FLe(x, y) ==
    IF IsNaN(x) \/ IsNaN(y) THEN FALSE
    ELSE ~FLt(y, x)

FGt(x, y) == FLt(y, x)

\* f32::min: the other operand when one is NaN
FMin(x, y) ==
    IF IsNaN(x) THEN y
    ELSE IF IsNaN(y) THEN x
    ELSE IF FLt(y, x) THEN y ELSE x

\* largest r with r*r <= k, searched in lo..hi
RECURSIVE ISqrtIn(_, _, _)
ISqrtIn(k, lo, hi) ==
    IF lo >= hi THEN lo
    ELSE LET mid == (lo + hi + 1) \div 2
         IN  IF mid * mid <= k THEN ISqrtIn(k, mid, hi) ELSE ISqrtIn(k, lo, mid - 1)

ISqrt(k) == ISqrtIn(k, 0, IF k < 46340 THEN k ELSE 46340)

\* f32::sqrt: NaN below zero, sqrt(-0.0) = -0.0
FSqrt(x) ==
    IF IsNaN(x) THEN NaN
    ELSE IF IsZero(x) THEN x
    ELSE IF x.s = -1 THEN NaN
    ELSE IF IsInf(x) THEN x
    ELSE LET rn == ISqrt(x.n)
             rd == ISqrt(x.d)
         IN  IF rn * rn = x.n /\ rd * rd = x.d
             THEN Mk(1, rn, rd)
             ELSE \* sqrt(n/d) = sqrt(n*d)/d, rounded down to 1/(SqrtScale*d)
                  Mk(1, ISqrt(x.n * x.d * SqrtScale * SqrtScale), x.d * SqrtScale)

\* approx's defaults for f32 in ulps_eq!: epsilon = f32::EPSILON = 2^-23, max_ulps = 4
EpsilonDen == 8388608
MaxUlps == 4

RECURSIVE Pow2Below(_)
\* largest power of two <= k, k >= 1
Pow2Below(k) == IF k < 2 THEN 1 ELSE 2 * Pow2Below(k \div 2)

\* approx::ulps_eq!(a, b): |a - b| <= epsilon, or same sign and at most max_ulps
\* representable values apart (an ulp of m is 2^(floor(log2 m) - 23))
UlpsEq(a, b) ==
    IF ~IsFinite(a) \/ ~IsFinite(b)
    THEN IsInf(a) /\ IsInf(b) /\ a.s = b.s
    ELSE LET diff == FAbs(FSub(a, b))
             m == IF FLt(FAbs(a), FAbs(b)) THEN FAbs(b) ELSE FAbs(a)
             m4 == (4 * m.n) \div m.d
         IN  \/ diff.n <= diff.d \div EpsilonDen
             \/ /\ a.s = b.s
                /\ m4 >= 1
                /\ diff.n <= (MaxUlps * Pow2Below(m4) * diff.d) \div (4 * EpsilonDen)

----------------------------------------------------------------------------
(* The planner: trajectory-planner/src/lib.rs                              *)

Half == R(1, 2)
PosZero == Zero(1)

\* second_order(time, initial_position, initial_velocity, acceleration)
SecondOrder(time, initial_position, initial_velocity, acceleration) ==
    FAdd(FAdd(initial_position, FMul(initial_velocity, time)),
         FMul(FMul(Half, acceleration), FSquare(time)))

\* position_at_full_stop(start, start_velocity, limits)
PositionAtFullStop(start, start_velocity, limits) ==
    LET time == FDiv(start_velocity, limits.acceleration)
    IN  SecondOrder(time, start, start_velocity, FNeg(limits.acceleration))

\* the end velocity the solve uses: end_velocity.min(limits.velocity)
ClampEndVelocity(end_velocity, limits) == FMin(end_velocity, limits.velocity)

\* the signs d, d_accel, d_decel
SignsFrom(d, start_velocity, limits) ==
    [d |-> d,
     d_accel |-> IF FGt(start_velocity, limits.velocity) THEN FNeg(d) ELSE d,
     d_decel |-> FNeg(d)]

PhaseSigns(start, end, start_velocity, limits) ==
    SignsFrom(FSignum(FSub(end, PositionAtFullStop(start, start_velocity, limits))),
              start_velocity, limits)

\* what both branches of the solve share: the signs, the clamped end velocity,
\* accel = limits.acceleration * d_accel and decel = limits.acceleration * d_decel
ContextFrom(sg, end_velocity, limits) ==
    [d |-> sg.d, d_accel |-> sg.d_accel, d_decel |-> sg.d_decel,
     end_velocity |-> ClampEndVelocity(end_velocity, limits),
     accel |-> FMul(limits.acceleration, sg.d_accel),
     decel |-> FMul(limits.acceleration, sg.d_decel)]

SolveContext(start, end, start_velocity, end_velocity, limits) ==
    ContextFrom(PhaseSigns(start, end, start_velocity, limits), end_velocity, limits)

\* dx1, dx3 and the profile record, from the peak velocity v and the times
ProfileFrom(c, start_velocity, v, dt1, dt2, dt3) ==
    [max_reachable_velocity |-> v, accel |-> c.accel, decel |-> c.decel,
     dt1 |-> dt1, dt2 |-> dt2, dt3 |-> dt3,
     dx1 |-> SecondOrder(dt1, PosZero, start_velocity, c.accel),
     dx3 |-> SecondOrder(dt3, PosZero, v, c.decel)]

\* dt2 = (end - (start + dx1 + dx3)) / max_reachable_velocity
WithCruise(p, start, end) ==
    [p EXCEPT !.dt2 = FDiv(FSub(end, FAdd(FAdd(start, p.dx1), p.dx3)),
                           p.max_reachable_velocity)]

\* the full-trapezoid trial at the peak velocity v = d * limits.velocity
TrialAt(c, start, end, start_velocity, v) ==
    WithCruise(ProfileFrom(c, start_velocity, v,
                           FDiv(FSub(v, start_velocity), c.accel),
                           PosZero,
                           FAbs(FDiv(FSub(v, c.end_velocity), c.decel))),
               start, end)

TrapezoidTrial(c, start, end, start_velocity, limits) ==
    TrialAt(c, start, end, start_velocity, FMul(c.d, limits.velocity))

\* d_accel * (end - start) + 0.5 * (start_velocity - end_velocity)^2
WedgeRadicand(c, start, end, start_velocity) ==
    FAdd(FMul(c.d_accel, FSub(end, start)),
         FMul(Half, FSquare(FSub(start_velocity, c.end_velocity))))

\* the peak velocity of the branch taken when the trial's dt2 < 0.0
WedgeVelocity(c, start, end, start_velocity) ==
    FSqrt(WedgeRadicand(c, start, end, start_velocity))

\* the branch taken when the trial's dt2 < 0.0, at the peak velocity v
WedgeAt(c, start_velocity, v) ==
    ProfileFrom(c, start_velocity, v,
                FDiv(FMul(c.d_accel, FSub(v, start_velocity)), c.accel),
                PosZero,
                FDiv(FMul(c.d_decel, FSub(v, c.end_velocity)), c.decel))

WedgeSolve(c, start, end, start_velocity) ==
    WedgeAt(c, start_velocity, WedgeVelocity(c, start, end, start_velocity))

\* validate_deltas without its comparison of the distances
ValidateDeltasTimesOnly(deltas, start, end) ==
    IF ~IsFinite(deltas.dt1) \/ ~IsSignPositive(deltas.dt1) THEN "dt1"
    ELSE IF ~IsFinite(deltas.dt2) \/ ~IsSignPositive(deltas.dt2) THEN "dt2"
    ELSE IF ~IsFinite(deltas.dt3) \/ ~IsSignPositive(deltas.dt3) THEN "dt3"
    ELSE "ok"

\* validate_deltas(deltas, start, end): "ok", or the check that failed
ValidateDeltas(deltas, start, end) ==
    IF ~IsFinite(deltas.dt1) \/ ~IsSignPositive(deltas.dt1) THEN "dt1"
    ELSE IF ~IsFinite(deltas.dt2) \/ ~IsSignPositive(deltas.dt2) THEN "dt2"
    ELSE IF ~IsFinite(deltas.dt3) \/ ~IsSignPositive(deltas.dt3) THEN "dt3"
    ELSE IF ~UlpsEq(FAdd(FAdd(deltas.dx1, deltas.dx2), deltas.dx3), FSub(end, start))
    THEN "distance"
    ELSE "ok"

\* the Deltas of a profile, with dx2 = second_order(dt2, 0, max_reachable_velocity, 0)
DeltasOf(p) ==
    [dt1 |-> p.dt1, dt2 |-> p.dt2, dt3 |-> p.dt3, dx1 |-> p.dx1,
     dx2 |-> SecondOrder(p.dt2, PosZero, p.max_reachable_velocity, PosZero),
     dx3 |-> p.dx3]

\* Ok((deltas, max_reachable_velocity)) when validate_deltas passes, else Err
Checked(check, deltas, max_reachable_velocity) ==
    [ok |-> check = "ok", err |-> check, deltas |-> deltas,
     max_reachable_velocity |-> max_reachable_velocity]

Validated(deltas, max_reachable_velocity, start, end) ==
    Checked(ValidateDeltas(deltas, start, end), deltas, max_reachable_velocity)

\* if dt2 < 0.0 { the wedge } else { the trial }
ChooseBranch(c, trial, start, end, start_velocity) ==
    IF FLt(trial.dt2, PosZero) THEN WedgeSolve(c, start, end, start_velocity)
    ELSE trial

SolveWith(c, start, end, start_velocity, limits) ==
    ChooseBranch(c, TrapezoidTrial(c, start, end, start_velocity, limits),
                 start, end, start_velocity)

Finish(p, start, end) == Validated(DeltasOf(p), p.max_reachable_velocity, start, end)

\* compute_deltas_and_limits
ComputeDeltasAndLimits(start, end, start_velocity, end_velocity, limits) ==
    Finish(SolveWith(SolveContext(start, end, start_velocity, end_velocity, limits),
                     start, end, start_velocity, limits),
           start, end)

\* duration()
Duration(seg) == FAdd(FAdd(seg.deltas.dt1, seg.deltas.dt2), seg.deltas.dt3)

\* the acceleration the evaluator uses in the first phase
EvalAccel1(seg) ==
    IF FGt(seg.start_velocity, seg.max_reachable_velocity)
    THEN FNeg(seg.limits.acceleration)
    ELSE seg.limits.acceleration

\* the acceleration the evaluator uses in the third phase
EvalAccel3(seg) == FNeg(seg.limits.acceleration)

\* position(): the acceleration-phase formula
PositionPhase1(seg, time) ==
    SecondOrder(time, seg.start, seg.start_velocity, EvalAccel1(seg))

\* position(): the cruise-phase formula
PositionPhase2(seg, time) ==
    SecondOrder(FSub(time, seg.deltas.dt1), FAdd(seg.start, seg.deltas.dx1),
                seg.max_reachable_velocity, PosZero)

\* position(): the deceleration-phase formula
PositionPhase3(seg, time) ==
    SecondOrder(FSub(FSub(time, seg.deltas.dt1), seg.deltas.dt2),
                FAdd(FAdd(seg.start, seg.deltas.dx1), seg.deltas.dx2),
                seg.max_reachable_velocity, EvalAccel3(seg))

\* the phase (1, 2 or 3) the evaluator selects for a time
PhaseAt(seg, time) ==
    IF FLt(time, seg.deltas.dt1) THEN 1
    ELSE IF FLe(seg.deltas.dt1, time)
            /\ FLt(time, FAdd(seg.deltas.dt1, seg.deltas.dt2)) THEN 2
    ELSE 3

\* position(time) with the time clamped into [0, duration()]
PositionClamped(seg, time) ==
    IF FLt(time, PosZero) THEN PositionPhase1(seg, PosZero)
    ELSE IF FGt(time, Duration(seg)) THEN PositionPhase3(seg, Duration(seg))
    ELSE CASE PhaseAt(seg, time) = 1 -> PositionPhase1(seg, time)
           [] PhaseAt(seg, time) = 2 -> PositionPhase2(seg, time)
           [] OTHER -> PositionPhase3(seg, time)

\* position(time)
Position(seg, time) ==
    CASE PhaseAt(seg, time) = 1 -> PositionPhase1(seg, time)
      [] PhaseAt(seg, time) = 2 -> PositionPhase2(seg, time)
      [] OTHER -> PositionPhase3(seg, time)

\* velocity(): the acceleration-phase formula
VelocityPhase1(seg, time) ==
    FAdd(FMul(EvalAccel1(seg), time), seg.start_velocity)

\* velocity(): the cruise-phase formula
VelocityPhase2(seg, time) == seg.max_reachable_velocity

\* velocity(): the deceleration-phase formula
VelocityPhase3(seg, time) ==
    FSub(seg.max_reachable_velocity,
         FMul(seg.limits.acceleration,
              FSub(FSub(time, seg.deltas.dt1), seg.deltas.dt2)))

\* velocity(time)
Velocity(seg, time) ==
    CASE PhaseAt(seg, time) = 1 -> VelocityPhase1(seg, time)
      [] PhaseAt(seg, time) = 2 -> VelocityPhase2(seg, time)
      [] OTHER -> VelocityPhase3(seg, time)

\* acceleration(time)
Acceleration(seg, time) ==
    CASE PhaseAt(seg, time) = 1 -> EvalAccel1(seg)
      [] PhaseAt(seg, time) = 2 -> PosZero
      [] OTHER -> EvalAccel3(seg)

----------------------------------------------------------------------------
(* The values callers pass                                                 *)

MkLimits(a, v) == [acceleration |-> a, velocity |-> v]

\* the segment the demo constructs: new(0.0, 10.0, 0.0, 0.0, {velocity 2.0, acceleration 5.0})
DemoInputs ==
    [start |-> R(0, 1), end |-> R(10, 1), start_velocity |-> R(0, 1),
     end_velocity |-> R(0, 1), limits |-> MkLimits(R(5, 1), R(2, 1))]

Starts == {R(0, 1)}
Ends == {R(-MaxDist, 1), R(-4, 1), R(0, 1), R(1, 2), R(1, 1), R(MaxDist, 1)}
Speeds == {R(-MaxSpeed, 1), R(-2, 1), R(0, 1), R(2, 1), R(MaxSpeed, 1)}
\* the sliders' values are parsed as f32 and passed on unchecked
AccelerationLimits == {R(-1, 1), R(0, 1), R(1, 1), R(5, 1)}
VelocityLimits == {R(0, 1), R(2, 1), R(4, 1)}

\* no segment: new() has not returned one
NoSeg == [none |-> TRUE]

\* where a caller evaluates a segment: before, at and after its ends, and at
\* its two phase boundaries
SamplePoints == {"before", "start", "t1", "t1+t2", "end", "after"}

SampleTime(s, point) ==
    CASE point = "before" -> R(-1, 1)
      [] point = "start" -> PosZero
      [] point = "t1" -> s.deltas.dt1
      [] point = "t1+t2" -> FAdd(s.deltas.dt1, s.deltas.dt2)
      [] point = "end" -> Duration(s)
      [] point = "after" -> FAdd(Duration(s), R(1, 1))

----------------------------------------------------------------------------
(* State                                                                   *)

VARIABLES
    seg,      \* the TrajectorySegment, or NoSeg before new() has returned one
    inputs,   \* the arguments of the last compute_deltas_and_limits call
    outcome,  \* of the last new()/setter: "none", "ok" or "panic" (.unwrap() on Err)
    sample    \* what the last evaluation of the segment returned, or NoSample

vars == <<seg, inputs, outcome, sample>>

NoSample == [none |-> TRUE]
\* no solve has run yet
NoInputs == [none |-> TRUE]

SolveOf(in) ==
    ComputeDeltasAndLimits(in.start, in.end, in.start_velocity, in.end_velocity,
                           in.limits)

InputsOf(s) ==
    [start |-> s.start, end |-> s.end, start_velocity |-> s.start_velocity,
     end_velocity |-> s.end_velocity, limits |-> s.limits]

Init ==
    /\ seg = NoSeg
    /\ inputs = NoInputs
    /\ outcome = "none"
    /\ sample = NoSample

\* new(): the solve is unwrapped, then the struct is built
Construct(in, r) ==
    /\ inputs' = in
    /\ sample' = NoSample
    /\ IF r.ok
       THEN /\ seg' = [start |-> in.start, end |-> in.end,
                       start_velocity |-> in.start_velocity,
                       end_velocity |-> in.end_velocity, limits |-> in.limits,
                       deltas |-> r.deltas,
                       max_reachable_velocity |-> r.max_reachable_velocity]
            /\ outcome' = "ok"
       ELSE /\ seg' = seg
            /\ outcome' = "panic"

ConstructFrom(in) == Construct(in, SolveOf(in))

\* TrajectorySegment::new
New(start, end, start_velocity, end_velocity, limits) ==
    /\ seg = NoSeg
    /\ outcome = "none"
    /\ ConstructFrom([start |-> start, end |-> end,
                      start_velocity |-> start_velocity,
                      end_velocity |-> end_velocity, limits |-> limits])

\* the body shared by the four setters: `assigned` is the segment after the
\* setter's first statement; the solve is unwrapped, then the cache is stored.
\* A panic ends the caller: the segment stays as the panic left it.
Store(assigned, r) ==
    /\ inputs' = InputsOf(assigned)
    /\ sample' = NoSample
    /\ IF r.ok
       THEN /\ seg' = [assigned EXCEPT
                         !.max_reachable_velocity = r.max_reachable_velocity,
                         !.deltas = r.deltas]
            /\ outcome' = "ok"
       ELSE /\ seg' = assigned
            /\ outcome' = "panic"

Resolve(assigned) == Store(assigned, SolveOf(InputsOf(assigned)))

SetVelocityLimit(limit) ==
    /\ outcome = "ok"
    /\ Resolve([seg EXCEPT !.limits.velocity = limit])

SetAccelerationLimit(limit) ==
    /\ outcome = "ok"
    /\ Resolve([seg EXCEPT !.limits.acceleration = limit])

SetStartVelocity(velocity) ==
    /\ outcome = "ok"
    /\ Resolve([seg EXCEPT !.start_velocity = velocity])

SetEndVelocity(velocity) ==
    /\ outcome = "ok"
    /\ Resolve([seg EXCEPT !.end_velocity = velocity])

\* a caller evaluates the segment at a time, as draw_profiles does:
\* duration(), position(time), velocity(time), acceleration(time)
SampleAt(time) ==
    /\ sample' = [time |-> time, duration |-> Duration(seg),
                  position |-> Position(seg, time),
                  velocity |-> Velocity(seg, time),
                  acceleration |-> Acceleration(seg, time)]
    /\ UNCHANGED <<seg, inputs, outcome>>

Sample(point) ==
    /\ outcome = "ok"
    /\ SampleAt(SampleTime(seg, point))

Next ==
    \/ \E s \in Starts, e \in Ends, sv \in Speeds, ev \in Speeds,
          a \in AccelerationLimits, v \in VelocityLimits :
          New(s, e, sv, ev, MkLimits(a, v))
    \/ \E v \in VelocityLimits : SetVelocityLimit(v)
    \/ \E a \in AccelerationLimits : SetAccelerationLimit(a)
    \/ \E sv \in Speeds : SetStartVelocity(sv)
    \/ \E ev \in Speeds : SetEndVelocity(ev)
    \/ \E p \in SamplePoints : Sample(p)

Spec == Init /\ [][Next]_vars

----------------------------------------------------------------------------
(* Vocabulary of the properties                                            *)

\* a segment exists and its last new()/setter returned
Solved == outcome = "ok"

\* new() was called and produced no segment
NewFailed == seg = NoSeg /\ outcome # "none"

\* both limits finite and > 0
ValidLimits(l) ==
    /\ IsFinite(l.acceleration) /\ FGt(l.acceleration, PosZero)
    /\ IsFinite(l.velocity) /\ FGt(l.velocity, PosZero)

\* x and y are the same number (-0.0 and +0.0 are)
FEq(x, y) == FLe(x, y) /\ FLe(y, x)

\* x clamped into [lo, hi]
Clamp(x, lo, hi) == IF FLt(x, lo) THEN lo ELSE IF FGt(x, hi) THEN hi ELSE x

\* x1 + x2 + x3
Displacement(deltas) == FAdd(FAdd(deltas.dx1, deltas.dx2), deltas.dx3)

\* the times are finite and >= 0 and the displacements sum to end - start
DeltasValid(deltas, start, end) ==
    /\ \A t \in {deltas.dt1, deltas.dt2, deltas.dt3} : IsFinite(t) /\ FLe(PosZero, t)
    /\ UlpsEq(Displacement(deltas), FSub(end, start))

\* the cache is the solve of the segment's own fields
CacheMatchesFields ==
    /\ SolveOf(InputsOf(seg)).ok
    /\ SolveOf(InputsOf(seg)).deltas = seg.deltas
    /\ SolveOf(InputsOf(seg)).max_reachable_velocity = seg.max_reachable_velocity

----------------------------------------------------------------------------
(* C1: every setter is transactional; no reachable segment has limits or   *)
(* velocities other than the ones its cached Deltas were solved for.       *)
(* The code assigns the field, then unwraps the solve: violated.           *)
C1_SettersTransactional == seg # NoSeg => CacheMatchesFields

(* C2: when a limit is <= 0 or non-finite, new() returns the InvalidLimits *)
(* error to its caller and does not panic.  The code has no such check and *)
(* unwraps the solve's Err: violated.                                      *)
C2_InvalidLimitsReturned ==
    (NewFailed /\ ~ValidLimits(inputs.limits)) => outcome = "InvalidLimits"

(* C3: after new() and after any setter, the cached Deltas have t1, t2, t3 *)
(* finite and >= 0 and x1 + x2 + x3 equal to end - start within the        *)
(* validator's tolerance; a solve that cannot satisfy this stores nothing. *)
C3_CachedDeltasValid ==
    seg # NoSeg => DeltasValid(seg.deltas, seg.start, seg.end)

\* a solved wedge over a nonzero distance
C3_Witness ==
    /\ Solved
    /\ IsZero(seg.deltas.dt2)
    /\ ~IsZero(seg.deltas.dx1)
    /\ ~IsZero(FSub(seg.end, seg.start))

(* C4: for every solved segment, in either direction of travel,            *)
(* position(0) = start and position(duration()) = end.  The evaluator's    *)
(* third phase always uses -acceleration: violated for end < start.        *)
C4_PositionEndpoints ==
    (Solved /\ ValidLimits(seg.limits) /\ sample # NoSample) =>
        /\ FEq(sample.time, PosZero) => UlpsEq(sample.position, seg.start)
        /\ FEq(sample.time, sample.duration) => UlpsEq(sample.position, seg.end)

(* C5: for every solved segment velocity(0) = start_velocity and           *)
(* velocity(duration()) = end_velocity clamped into                        *)
(* [-velocity_limit, +velocity_limit].  The code clamps with min() only.   *)
C5_VelocityEndpoints ==
    (Solved /\ ValidLimits(seg.limits) /\ sample # NoSample) =>
        /\ FEq(sample.time, PosZero) => UlpsEq(sample.velocity, seg.start_velocity)
        /\ FEq(sample.time, sample.duration) =>
               UlpsEq(sample.velocity,
                      Clamp(seg.end_velocity, FNeg(seg.limits.velocity),
                            seg.limits.velocity))

\* the full-trapezoid trial of the last solve, and what it shared with the wedge
LastContext ==
    SolveContext(inputs.start, inputs.end, inputs.start_velocity,
                 inputs.end_velocity, inputs.limits)

LastTrial ==
    TrapezoidTrial(LastContext, inputs.start, inputs.end, inputs.start_velocity,
                   inputs.limits)

\* the last solve took the wedge branch
WedgeTaken == FLt(LastTrial.dt2, PosZero)

\* the model's square root of x is the exact one
SqrtIsExact(x) ==
    (IsFinite(x) /\ ~IsZero(x) /\ x.s = 1) => FSquare(FSqrt(x)) = x

\* the spec's wedge scenario: start=0, end=0.5, zero velocities, limits 5 and 2
WedgeScenario ==
    [start |-> R(0, 1), end |-> R(1, 2), start_velocity |-> R(0, 1),
     end_velocity |-> R(0, 1), limits |-> MkLimits(R(5, 1), R(2, 1))]

\* the last solve returned a segment with no cruise phase and the right distance
SolvedAsWedge ==
    /\ Solved
    /\ InputsOf(seg) = inputs
    /\ IsZero(seg.deltas.dt2)
    /\ UlpsEq(Displacement(seg.deltas), FSub(seg.end, seg.start))

(* C6: whenever the full-trapezoid trial yields t2 < 0 the solve produces  *)
(* a segment with t2 = 0 whose displacements sum to end - start; so does   *)
(* the scenario start=0, end=0.5, limits 5 and 2.  The code's wedge peak   *)
(* velocity leaves the acceleration out, so validation fails: violated.    *)
(* (The general case is read on the solves whose square root is exact.)    *)
C6_WedgeFallback ==
    /\ (outcome # "none" /\ ValidLimits(inputs.limits) /\ WedgeTaken
        /\ SqrtIsExact(WedgeRadicand(LastContext, inputs.start, inputs.end,
                                     inputs.start_velocity)))
       => SolvedAsWedge
    /\ (outcome # "none" /\ inputs = WedgeScenario) => SolvedAsWedge

\* |x|
Magnitude(x) == FAbs(x)

\* a zero-to-zero move with valid limits, long enough to reach the velocity
\* limit: |end - start| >= velocity_limit^2 / acceleration_limit
SymmetricLongMove(in) ==
    /\ ValidLimits(in.limits)
    /\ IsZero(in.start_velocity) /\ IsZero(in.end_velocity)
    /\ FLe(FDiv(FSquare(in.limits.velocity), in.limits.acceleration),
           Magnitude(FSub(in.end, in.start)))

\* the textbook trapezoid of a segment
TextbookTrapezoid(s) ==
    LET ramp == FDiv(s.limits.velocity, s.limits.acceleration)
        dist == FDiv(FSquare(s.limits.velocity),
                     FMul(R(2, 1), s.limits.acceleration))
    IN  /\ FEq(s.deltas.dt1, ramp) /\ FEq(s.deltas.dt3, ramp)
        /\ FEq(Magnitude(s.deltas.dx1), dist) /\ FEq(Magnitude(s.deltas.dx3), dist)
        /\ FEq(s.deltas.dt2,
               FDiv(FSub(FSub(Magnitude(FSub(s.end, s.start)),
                              Magnitude(s.deltas.dx1)),
                         Magnitude(s.deltas.dx3)),
                    s.limits.velocity))
        /\ FEq(Duration(s), FAdd(FAdd(s.deltas.dt1, s.deltas.dt2), s.deltas.dt3))

\* t1 = t3 = 0.4, x1 = x3 = 0.4, t2 = 4.6, duration() = 5.4
DemoTrapezoid(s) ==
    /\ s.deltas.dt1 = R(2, 5) /\ s.deltas.dt3 = R(2, 5)
    /\ s.deltas.dx1 = R(2, 5) /\ s.deltas.dx3 = R(2, 5)
    /\ s.deltas.dt2 = R(23, 5)
    /\ Duration(s) = R(27, 5)

(* C7: a zero-to-zero move long enough to reach the velocity limit solves  *)
(* to t1 = t3 = v/a, |x1| = |x3| = v^2/(2a), t2 = (|end-start|-|x1|-|x3|)/v *)
(* and duration() = t1+t2+t3; the demo's move gives 0.4, 0.4, 4.6, 5.4.    *)
(* For end < start with exactly |end-start| = v^2/a the code computes      *)
(* t2 = -0.0, which validate_deltas rejects: violated.                     *)
C7_SymmetricTrapezoid ==
    /\ (outcome # "none" /\ SymmetricLongMove(inputs))
       => (Solved /\ InputsOf(seg) = inputs /\ TextbookTrapezoid(seg))
    /\ (outcome # "none" /\ inputs = DemoInputs)
       => (Solved /\ InputsOf(seg) = inputs /\ DemoTrapezoid(seg))

\* where the move stops when it brakes at once: start + v |v| / (2 a)
StopPosition(in) ==
    FAdd(in.start,
         FDiv(FMul(in.start_velocity, Magnitude(in.start_velocity)),
              FMul(R(2, 1), in.limits.acceleration)))

\* the direction of travel d: the side of the stop position the end lies on
TravelDirection(in) == FSignum(FSub(in.end, StopPosition(in)))

\* |start_velocity| exceeds the velocity limit in the direction of travel d
OverspeedEntry(in) ==
    /\ ValidLimits(in.limits)
    /\ FGt(Magnitude(in.start_velocity), in.limits.velocity)
    /\ ~IsZero(FSub(in.end, StopPosition(in)))
    /\ FSignum(in.start_velocity) = TravelDirection(in)

(* C8: on overspeed entry, in positive or negative travel, the solve       *)
(* succeeds, the first phase decelerates (sign -d), the third phase has    *)
(* the opposite sign, x1 + x2 + x3 = end - start, and the evaluator uses   *)
(* the solver's signs.  The code tests start_velocity > limits.velocity    *)
(* only, so a negative overspeed entry is solved as an acceleration and    *)
(* fails validation: violated.                                             *)
C8_OverspeedEntry ==
    (outcome # "none" /\ OverspeedEntry(inputs)) =>
        /\ Solved
        /\ InputsOf(seg) = inputs
        /\ FSignum(LastContext.accel) = FNeg(TravelDirection(inputs))
        /\ FSignum(LastContext.decel) = FNeg(FSignum(LastContext.accel))
        /\ UlpsEq(Displacement(seg.deltas), FSub(seg.end, seg.start))
        /\ EvalAccel1(seg) = LastContext.accel
        /\ EvalAccel3(seg) = LastContext.decel

\* the sample's time lies before 0 / after duration()
SampledBefore == Solved /\ sample # NoSample /\ FLt(sample.time, PosZero)
SampledAfter == Solved /\ sample # NoSample /\ FGt(sample.time, sample.duration)

(* C9 as stated: out-of-domain queries are clamped to the boundary state.  *)
(* The evaluator has no clamp: violated.                                   *)
C9_OutOfDomainClamped ==
    /\ (SampledBefore /\ ValidLimits(seg.limits)) =>
          /\ sample.position = Position(seg, PosZero)
          /\ sample.velocity = seg.start_velocity
    /\ (SampledAfter /\ ValidLimits(seg.limits)) =>
          /\ sample.position = Position(seg, Duration(seg))
          /\ sample.velocity = Velocity(seg, Duration(seg))

(* C9 as amended: out-of-domain queries are not clamped: for t < 0         *)
(* position(t) and velocity(t) are the first phase's formulas at t, and    *)
(* for t > duration() they are the third phase's formulas at t - t1 - t2.  *)
C9_OutOfDomainExtrapolated ==
    /\ SampledBefore =>
          /\ sample.position
               = SecondOrder(sample.time, seg.start, seg.start_velocity,
                             EvalAccel1(seg))
          /\ sample.velocity
               = FAdd(FMul(EvalAccel1(seg), sample.time), seg.start_velocity)
    /\ SampledAfter =>
          LET past == FSub(FSub(sample.time, seg.deltas.dt1), seg.deltas.dt2)
          IN  /\ sample.position
                   = SecondOrder(past,
                                 FAdd(FAdd(seg.start, seg.deltas.dx1), seg.deltas.dx2),
                                 seg.max_reachable_velocity,
                                 FNeg(seg.limits.acceleration))
              /\ sample.velocity
                   = FSub(seg.max_reachable_velocity,
                          FMul(seg.limits.acceleration, past))

\* a segment with three phases sampled one second after its end, away from
\* where it ends
C9_Witness ==
    /\ SampledAfter
    /\ ~IsZero(seg.deltas.dt1) /\ ~IsZero(seg.deltas.dt2) /\ ~IsZero(seg.deltas.dt3)
    /\ sample.position # Position(seg, Duration(seg))

(* C10: for every solved segment position(t) and velocity(t) are           *)
(* continuous at both phase boundaries: the phase-1 and phase-2 formulas   *)
(* agree at t1, the phase-2 and phase-3 formulas agree at t1 + t2.         *)
(* new() and the setters accept a negative acceleration limit (C2); the    *)
(* solver then accelerates by limit * d_accel while the evaluator uses the *)
(* limit itself: violated at t1.                                           *)
C10_Continuity ==
    Solved =>
        LET t1 == seg.deltas.dt1
            t12 == FAdd(seg.deltas.dt1, seg.deltas.dt2)
        IN  /\ FEq(PositionPhase1(seg, t1), PositionPhase2(seg, t1))
            /\ FEq(PositionPhase2(seg, t12), PositionPhase3(seg, t12))
            /\ FEq(VelocityPhase1(seg, t1), VelocityPhase2(seg, t1))
            /\ FEq(VelocityPhase2(seg, t12), VelocityPhase3(seg, t12))

====
